---- MODULE Spec2Model ----
(***************************************************************************)
(* The job orchestration state machine of the ink-v1 frontend              *)
(* (frontend/src/App.tsx over frontend/src/api.ts): the React state of     *)
(* App, the three entry points handleSubmit (run), handleRefresh           *)
(* (refreshOnce) and handleContinueWaiting (continueWaiting), the poll     *)
(* loop pollUntilFinished, and the four transport operations.              *)
(*                                                                         *)
(* One action is one turn of the JavaScript event loop: the code that runs *)
(* from a click, a settled promise or a fired timer up to the next await.  *)
(* A throw and the catch that handles it are in the same turn.             *)
(*                                                                         *)
(* Texts are written in ASCII (accents and typographic quotes dropped).    *)
(***************************************************************************)
EXTENDS Integers, Sequences, FiniteSets, TLC

\* ---------------------------------------------------------------- bounds

\* Jobs the server creates in one page session (uploadFile succeeds at most
\* this many times).
MaxJobs == 2

\* How long a getJobStatus call of a Poll Session may take, in ms: at once,
\* or a slow response.  Two slow responses and the first sleep add up to
\* exactly the budget.
Latencies == {0, 299000}

\* ------------------------------------------------------- values and types

\* JavaScript null (and undefined).
Null == "<null>"

\* The File picked in the file input, or none.
Files == {Null, "comic.pdf"}

\* job_id values the server hands out, in order of creation.
JobIds == <<"job1", "job2", "job3", "job4">>

\* useState<JobStatusResponse | null>(null): the null snapshot.
NullStatus ==
    [job_id |-> Null, status |-> Null, error_message |-> Null,
     progress_stage |-> Null, progress_current |-> <<>>, progress_total |-> <<>>]

ErrorMessages == {Null, "", "OCR engine unavailable"}

\* An optional number of a response: <<>> when the field is absent (null or
\* undefined), <<n>> when it is n.
Absent == <<>>

Some(n) == <<n>>

\* The progress records the server reports in the run of a job: none yet,
\* import not started, ocr done, and completed.  The server may report them
\* in any order.
NoProgressYet ==
    [progress_stage |-> Null, progress_current |-> Absent, progress_total |-> Absent]

ProgressOf(stage, current, total) ==
    [progress_stage |-> stage, progress_current |-> Some(current), progress_total |-> Some(total)]

\* A snapshot: job_id, status, error_message and the progress record.
Snapshot(id, st, m, pr) ==
    [job_id |-> id, status |-> st, error_message |-> m,
     progress_stage |-> pr.progress_stage,
     progress_current |-> pr.progress_current,
     progress_total |-> pr.progress_total]

\* What GET /api/v1/jobs/{id} can answer with a 2xx: the server reports the
\* job asked for; error_message comes with status failed.
JobStatusResponses(id) ==
    {Snapshot(id, "uploaded", Null, NoProgressYet),
     Snapshot(id, "processing", Null, ProgressOf("import", 0, 1)),
     Snapshot(id, "processing", Null, ProgressOf("ocr", 1, 1)),
     Snapshot(id, "completed", Null, ProgressOf("completed", 1, 1))}
    \cup {Snapshot(id, "failed", m, NoProgressYet) : m \in ErrorMessages}

\* HTTP responses of the server (status and body text), and a request that
\* never gets one (fetch rejects).
HttpResponses ==
    {[status |-> 200, text |-> "ok"],
     [status |-> 404, text |-> ""],
     [status |-> 500, text |-> "Internal Server Error"]}

NetworkFailure == [status |-> 0, text |-> "Failed to fetch"]

\* Response.ok
ResOk(res) == res.status >= 200 /\ res.status <= 299

\* An Error whose text leaves out the status code.
ApiErrorWithoutStatus(prefix, res) ==
    IF res = NetworkFailure
    THEN [name |-> "TypeError", message |-> res.text]
    ELSE [name |-> "Error", message |-> prefix \o ": " \o res.text]

\* As if the operation caught the rejection of fetch and threw an Error of
\* its own with the same text.
ApiErrorWrappingAll(prefix, res) ==
    IF res = NetworkFailure
    THEN [name |-> "Error", message |-> res.text]
    ELSE [name |-> "Error",
          message |-> prefix \o ": " \o ToString(res.status) \o " " \o res.text]

\* What a transport operation of api.ts throws on `res`: on a response that
\* is not ok, new Error with the operation's prefix, the status and the body
\* text; a rejection of fetch is not caught and passes through as it is (a
\* TypeError, as fetch rejects).
ApiError(prefix, res) ==
    IF res = NetworkFailure
    THEN [name |-> "TypeError", message |-> res.text]
    ELSE [name |-> "Error",
          message |-> prefix \o ": " \o ToString(res.status) \o " " \o res.text]

uploadFileError(res) == ApiError("Error creando job", res)

processJobError(res) == ApiError("Error procesando job", res)

getJobStatusError(res) == ApiError("Error consultando job", res)

downloadJobError(res) == ApiError("Error descargando resultado", res)

\* Responses on which a transport operation throws.
Failures == {res \in HttpResponses : ~ResOk(res)} \cup {NetworkFailure}

\* a ?? b in place of a || b: an empty string is kept.
OrElseNullish(a, b) == IF a = Null THEN b ELSE a

\* a || b on strings: b when a is null or empty.
OrElse(a, b) == IF a = Null \/ a = "" THEN b ELSE a

\* A catch that shows its own fallback text whatever was thrown.
CaughtMessageFallbackOnly(e, fallback) == fallback

\* e?.message ?? fallback
CaughtMessage(e, fallback) == IF e.message = Null THEN fallback ELSE e.message

\* Math.round(x / 1000) for x >= 0
RoundSeconds(ms) == (ms + 500) \div 1000

formatSeconds(s) ==
    IF s < 60
    THEN ToString(s) \o "s"
    ELSE ToString(s \div 60) \o "m " \o ToString(s % 60) \o "s"

\* ------------------------------------------------- pollUntilFinished's constants

maxMs == 10 * 60 * 1000

InitialDelayMs == 2000

maxDelayMs == 10000

\* Math.round(delayMs * 1.2): 1.2 * delayMs has a fraction of .0, .2, .4, .6
\* or .8, so rounding to nearest is exact in integers.
RoundTimes12(d) == (12 * d + 5) \div 10

Min(a, b) == IF a < b THEN a ELSE b

BackoffUncapped(d) == RoundTimes12(d)

\* A delay that never grows.
NextDelayWithoutGrowth(d) == d

\* delayMs = Math.min(maxDelayMs, Math.round(delayMs * 1.2))
NextDelay(d) == Min(maxDelayMs, RoundTimes12(d))

\* The elapsed time taken in seconds against a budget in milliseconds.
OverBudgetInSeconds(elapsed) == elapsed \div 1000 > maxMs

\* A budget that is spent already when the elapsed time equals it.
OverBudgetAtLimit(elapsed) == elapsed >= maxMs

\* elapsedMs > maxMs
OverBudget(elapsed) == elapsed > maxMs

IsCompletedTypo(s) == s.status = "complete"

IsCompletedUnlessFailed(s) == s.status # "failed"

\* status.status === "completed"
IsCompleted(s) == s.status = "completed"

\* status.status === "failed"
IsFailed(s) == s.status = "failed"

\* Neither test passed: the poll loop goes on to the budget check, and
\* handleRefresh to its last line.
StillProcessing(s) == ~IsCompleted(s) /\ ~IsFailed(s)

\* ------------------------------------------------------------ progressInfo

\* Bound of the progress counters given to progressInfo.
MaxTotal == 40

Max(a, b) == IF a > b THEN a ELSE b

\* !jobStatus?.progress_total || jobStatus.progress_total <= 0
NoTotal(js) == js.progress_total = Absent \/ js.progress_total[1] <= 0

\* An absent current taken as the total.
CurrentAbsentAsTotal(js) ==
    IF js.progress_current = Absent
    THEN js.progress_total[1]
    ELSE Min(js.progress_current[1], js.progress_total[1])

\* Math.min(jobStatus.progress_current ?? 0, total)
Current(js) ==
    IF js.progress_current = Absent
    THEN Min(0, js.progress_total[1])
    ELSE Min(js.progress_current[1], js.progress_total[1])

\* The pairs (c, t) with t <= MaxTotal + 1 for which 100c/t is an exact half
\* and the double (c / t) * 100 comes out below it: 23 / 40 is
\* 0.57499999999999996, times 100 is 57.49999999999999.
DoubleBelowHalf == {<<23, 40>>}

\* Math.round((c / t) * 100) for t > 0: Math.round takes halves upwards and
\* the product is the one computed in doubles.
RoundPercent(c, t) ==
    IF <<c, t>> \in DoubleBelowHalf
    THEN ((200 * c + t) \div (2 * t)) - 1
    ELSE (200 * c + t) \div (2 * t)

\* Math.max(0, Math.min(100, Math.round((current / total) * 100)))
Percent(js) == Max(0, Min(100, RoundPercent(Current(js), js.progress_total[1])))

\* `${current} / ${total}`
Of(c, t) == ToString(c) \o " / " \o ToString(t)

\* The switch on jobStatus.progress_stage (the text of export ends in the
\* ellipsis character, written here as three dots).
StageView(js) ==
    LET c == Current(js)
        t == js.progress_total[1]
        stage == js.progress_stage
    IN  CASE stage = "import" -> [text |-> "Importando " \o Of(c, t), percent |-> Percent(js)]
          [] stage = "ocr" -> [text |-> "OCR " \o Of(c, t), percent |-> Percent(js)]
          [] stage = "translate" -> [text |-> "Traduciendo " \o Of(c, t), percent |-> Percent(js)]
          [] stage = "render" -> [text |-> "Renderizando " \o Of(c, t), percent |-> Percent(js)]
          [] stage = "export" -> [text |-> "Exportando...", percent |-> 100]
          [] stage = "completed" -> [text |-> "Completado " \o Of(t, t), percent |-> 100]
          [] OTHER -> [text |-> "Procesando " \o Of(c, t), percent |-> Percent(js)]

\* useMemo(() => ..., [jobStatus]): null (Absent) or { text, percent }.
progressInfo(js) == IF NoTotal(js) THEN Absent ELSE Some(StageView(js))

\* ------------------------------------------------------------------ state

VARIABLES
    file,       \* useState<File | null>
    step,       \* useState<Step>
    message,    \* useState<string>
    jobId,      \* useState<string | null>
    jobStatus,  \* useState<JobStatusResponse | null>
    error,      \* useState<string | null>
    handler,    \* the entry point in progress, or "none"
    pc,         \* the await the entry point is suspended at, or "idle"
    id,         \* the job the entry point works on (created.job_id, or the jobId it closed over)
    delayMs,    \* pollUntilFinished: let delayMs
    elapsedMs,  \* pollUntilFinished: Date.now() - startedAt
    status,     \* the latest getJobStatus response (const status / const s)
    result,     \* how the latest finished Poll Session ended, "none" before the first
    log,        \* what the entry point in progress (or the last one) did, in order
    jobsCreated \* server: jobs created so far

vars ==
    <<file, step, message, jobId, jobStatus, error, handler, pc, id,
      delayMs, elapsedMs, status, result, log, jobsCreated>>

\* What handleRefresh finds when it is invoked: the step, whether an error
\* was shown, the job identifier and the progress of the stored snapshot.
\* Its contract is stated against this state.
Found ==
    [step |-> step, error |-> IF error = Null THEN Null ELSE "shown",
     jobId |-> jobId,
     progress_stage |-> jobStatus.progress_stage,
     progress_current |-> jobStatus.progress_current]

\* Entries of the log: an entry point invoked, a request issued, a response
\* taken (what the poll loop or handleRefresh made of it, and the status the
\* snapshot carried), a throw caught, a sleep started.
Entry(h) ==
    [ev |-> "entry", op |-> h, id |-> Null, seen |-> Null, ms |-> 0,
     found |-> IF h = "handleRefresh" THEN Found ELSE Null]

Req(op, j) == [ev |-> "request", op |-> op, id |-> j, seen |-> Null, ms |-> 0]

Seen(s) == IF s.status \in {"uploaded", "processing"} THEN "nonterminal" ELSE s.status

Observed(st, s) == [ev |-> st, op |-> Null, id |-> Null, seen |-> Seen(s), ms |-> 0]

Thrown == [ev |-> "THROWN", op |-> Null, id |-> Null, seen |-> Null, ms |-> 0]

Sleep(ms) == [ev |-> "sleep", op |-> Null, id |-> Null, seen |-> Null, ms |-> ms]

Init ==
    /\ file = Null
    /\ step = "idle"
    /\ message = ""
    /\ jobId = Null
    /\ jobStatus = NullStatus
    /\ error = Null
    /\ handler = "none"
    /\ pc = "idle"
    /\ id = Null
    /\ delayMs = 0
    /\ elapsedMs = 0
    /\ status = NullStatus
    /\ result = "none"
    /\ log = <<>>
    /\ jobsCreated = 0

\* An isBusy that leaves the controls usable while the step is waiting.
isBusyUnlessWaiting ==
    \/ step = "uploading"
    \/ step = "starting"
    \/ step = "downloading"

isBusy ==
    \/ step = "uploading"
    \/ step = "starting"
    \/ step = "waiting"
    \/ step = "downloading"

\* The buttons "Actualizar estado" and "Seguir esperando" are rendered.
ResumeButtonsShown == jobId # Null

\* ------------------------------------------------------- shared code paths

\* The fallback text of each entry point's catch.
CatchFallback(h) ==
    CASE h = "handleSubmit" -> "Error inesperado"
      [] h = "handleRefresh" -> "Error actualizando estado"
      [] h = "handleContinueWaiting" -> "Error esperando"

\* A catch that forgets setStep("error").
CatchKeepingStep(e) ==
    /\ step' = step
    /\ error' = CaughtMessage(e, CatchFallback(handler))
    /\ handler' = "none"
    /\ pc' = "idle"

\* catch (e) { setStep("error"); setError(e?.message ?? fallback); }
\* and the entry point returns.
Catch(e) ==
    /\ step' = "error"
    /\ error' = CaughtMessage(e, CatchFallback(handler))
    /\ handler' = "none"
    /\ pc' = "idle"

\* As if delayMs lived outside pollUntilFinished: a session takes up the
\* delay the one before it had reached.
PollStartKeepingDelay(j, done) ==
    /\ elapsedMs' = 0
    /\ delayMs' = IF delayMs = 0 THEN InitialDelayMs ELSE delayMs
    /\ result' = result
    /\ log' = done \o <<Req("getJobStatus", j)>>
    /\ pc' = "getJobStatus"

\* pollUntilFinished(j) up to its first await: startedAt = Date.now(),
\* delayMs = 2000, and the first getJobStatus(j) is issued.
PollStart(j, done) ==
    /\ elapsedMs' = 0
    /\ delayMs' = InitialDelayMs
    /\ result' = result
    /\ log' = done \o <<Req("getJobStatus", j)>>
    /\ pc' = "getJobStatus"

\* A store that keeps the progress it has when the new snapshot's is lower.
StoreSnapshotMonotonic(old, s) ==
    IF /\ old.progress_current # Absent
       /\ s.progress_current # Absent
       /\ s.progress_current[1] < old.progress_current[1]
    THEN [s EXCEPT !.progress_stage = old.progress_stage,
                   !.progress_current = old.progress_current,
                   !.progress_total = old.progress_total]
    ELSE s

\* setJobStatus(status): the stored snapshot after `s` is taken, `old` being
\* the one stored before.
StoreSnapshot(old, s) == s

\* new Error(status.error_message || "El procesamiento ha fallado.")
PollFailure(s) == [message |-> OrElse(s.error_message, "El procesamiento ha fallado.")]

\* s.error_message || "Job fallido."
RefreshFailure(s) == OrElse(s.error_message, "Job fallido.")

\* The caller's text after a Poll Session that returned still_processing.
StillProcessingMessage(h) ==
    IF h = "handleSubmit"
    THEN "El job sigue procesando. Pulsa 'Actualizar estado' en unos segundos, o 'Seguir esperando'."
    ELSE "Sigue procesando. Puedes seguir esperando cuando quieras."

\* The entry point's text after the download.
DoneMessage(h) ==
    IF h = "handleRefresh"
    THEN "Descargado."
    ELSE "Traduccion completada y archivo descargado."

StepAfterStillProcessingAsError == "error"

\* The step an entry point is left in when its Poll Session returned
\* still_processing: setStep("waiting").
StepAfterStillProcessing == "waiting"

\* ------------------------------------------------------------ file input

\* A file input that forgets the job when a file is chosen.
SelectFileResettingJob ==
    /\ ~isBusy
    /\ \E f \in Files : file' = f
    /\ error' = Null
    /\ jobId' = Null
    /\ UNCHANGED <<step, message, jobStatus, handler, pc, id,
                   delayMs, elapsedMs, status, result, log, jobsCreated>>

\* onChange of the file input (disabled while isBusy).
SelectFile ==
    /\ ~isBusy
    /\ \E f \in Files : file' = f
    /\ error' = Null
    /\ UNCHANGED <<step, message, jobId, jobStatus, handler, pc, id,
                   delayMs, elapsedMs, status, result, log, jobsCreated>>

\* ---------------------------------------------------- handleSubmit (run)

\* A handleSubmit that lacks the guard on the file and uploads nothing.
HandleSubmitNoFileUploading ==
    /\ ~isBusy
    /\ file = Null
    /\ error' = Null
    /\ step' = "uploading"
    /\ message' = "Subiendo archivo..."
    /\ handler' = "handleSubmit"
    /\ pc' = "uploadFile"
    /\ log' = <<Entry("handleSubmit"), Req("uploadFile", Null)>>
    /\ UNCHANGED <<file, jobId, jobStatus, id, delayMs, elapsedMs, status,
                   result, jobsCreated>>

\* Click on "Traducir comic" with no file: the early return.
HandleSubmitNoFile ==
    /\ ~isBusy
    /\ file = Null
    /\ error' = "Selecciona un archivo PDF primero."
    /\ step' = "error"
    /\ log' = <<Entry("handleSubmit")>>
    /\ UNCHANGED <<file, message, jobId, jobStatus, handler, pc, id,
                   delayMs, elapsedMs, status, result, jobsCreated>>

\* A handleSubmit that clears the stored job before it uploads.
HandleSubmitForgettingJob ==
    /\ ~isBusy
    /\ file # Null
    /\ error' = Null
    /\ step' = "uploading"
    /\ message' = "Subiendo archivo..."
    /\ jobId' = Null
    /\ handler' = "handleSubmit"
    /\ pc' = "uploadFile"
    /\ log' = <<Entry("handleSubmit"), Req("uploadFile", Null)>>
    /\ UNCHANGED <<file, jobStatus, id, delayMs, elapsedMs, status,
                   result, jobsCreated>>

\* Click on "Traducir comic" with a file, up to await uploadFile(file).
HandleSubmit ==
    /\ ~isBusy
    /\ file # Null
    /\ error' = Null
    /\ step' = "uploading"
    /\ message' = "Subiendo archivo..."
    /\ handler' = "handleSubmit"
    /\ pc' = "uploadFile"
    /\ log' = <<Entry("handleSubmit"), Req("uploadFile", Null)>>
    /\ UNCHANGED <<file, jobId, jobStatus, id, delayMs, elapsedMs, status,
                   result, jobsCreated>>

\* A handleSubmit that goes from the upload straight into the Poll Session,
\* without processJob.
UploadFileReturnsUntriggered ==
    /\ handler = "handleSubmit"
    /\ pc = "uploadFile"
    /\ jobsCreated < MaxJobs
    /\ \E res \in HttpResponses : ResOk(res)
    /\ jobsCreated' = jobsCreated + 1
    /\ jobId' = JobIds[jobsCreated + 1]
    /\ id' = JobIds[jobsCreated + 1]
    /\ step' = "waiting"
    /\ message' = "Procesando..."
    /\ PollStart(JobIds[jobsCreated + 1], log)
    /\ UNCHANGED <<file, jobStatus, error, handler, status>>

\* uploadFile returned the created job; up to await processJob(created.job_id).
UploadFileReturns ==
    /\ handler = "handleSubmit"
    /\ pc = "uploadFile"
    /\ jobsCreated < MaxJobs
    /\ \E res \in HttpResponses :
        /\ ResOk(res)
        /\ jobsCreated' = jobsCreated + 1
        /\ jobId' = JobIds[jobsCreated + 1]
        /\ id' = JobIds[jobsCreated + 1]
        /\ message' = "Job creado: " \o JobIds[jobsCreated + 1] \o ". Iniciando procesamiento..."
        /\ step' = "starting"
        /\ log' = log \o <<Req("processJob", JobIds[jobsCreated + 1])>>
        /\ pc' = "processJob"
    /\ UNCHANGED <<file, jobStatus, error, handler, delayMs, elapsedMs,
                   status, result>>

UploadFileThrows ==
    /\ handler = "handleSubmit"
    /\ pc = "uploadFile"
    /\ \E res \in Failures : Catch(uploadFileError(res))
    /\ log' = log \o <<Thrown>>
    /\ UNCHANGED <<file, message, jobId, jobStatus, id, delayMs, elapsedMs,
                   status, result, jobsCreated>>

\* processJob returned; setStep("waiting") and into pollUntilFinished.
ProcessJobReturns ==
    /\ handler = "handleSubmit"
    /\ pc = "processJob"
    /\ \E res \in HttpResponses : ResOk(res)
    /\ step' = "waiting"
    /\ message' = "Procesando..."
    /\ PollStart(id, log)
    /\ UNCHANGED <<file, jobId, jobStatus, error, handler, id, status,
                   jobsCreated>>

ProcessJobThrows ==
    /\ handler = "handleSubmit"
    /\ pc = "processJob"
    /\ \E res \in Failures : Catch(processJobError(res))
    /\ log' = log \o <<Thrown>>
    /\ UNCHANGED <<file, message, jobId, jobStatus, id, delayMs, elapsedMs,
                   status, result, jobsCreated>>

\* ------------------------------------------------------ pollUntilFinished

InSession == handler \in {"handleSubmit", "handleContinueWaiting"} /\ pc = "getJobStatus"

\* getJobStatus answered completed: setJobStatus, return "completed"; the
\* caller sets "downloading" and issues downloadJob (handleDownload).
PollCompleted ==
    /\ InSession
    /\ \E s \in JobStatusResponses(id), d \in Latencies :
        /\ IsCompleted(s)
        /\ elapsedMs' = elapsedMs + d
        /\ status' = s
        /\ jobStatus' = StoreSnapshot(jobStatus, s)
        /\ log' = log \o <<Observed("COMPLETED", s), Req("downloadJob", id)>>
    /\ result' = "completed"
    /\ step' = "downloading"
    /\ message' = "Descargando resultado..."
    /\ pc' = "downloadJob"
    /\ UNCHANGED <<file, jobId, error, handler, id, delayMs, jobsCreated>>

\* getJobStatus answered failed: setJobStatus, throw; the caller's catch.
PollFailed ==
    /\ InSession
    /\ \E s \in JobStatusResponses(id), d \in Latencies :
        /\ IsFailed(s)
        /\ elapsedMs' = elapsedMs + d
        /\ status' = s
        /\ jobStatus' = StoreSnapshot(jobStatus, s)
        /\ log' = log \o <<Observed("FAILED", s)>>
        /\ Catch(PollFailure(s))
    /\ result' = "thrown"
    /\ UNCHANGED <<file, message, jobId, id, delayMs, jobsCreated>>

\* getJobStatus answered a non-terminal status after the budget: return
\* "still_processing"; the caller sets "waiting" and returns.
PollTimedOut ==
    /\ InSession
    /\ \E s \in JobStatusResponses(id), d \in Latencies :
        /\ StillProcessing(s)
        /\ OverBudget(elapsedMs + d)
        /\ elapsedMs' = elapsedMs + d
        /\ status' = s
        /\ jobStatus' = StoreSnapshot(jobStatus, s)
        /\ log' = log \o <<Observed("TIMED_OUT", s)>>
    /\ result' = "still_processing"
    /\ step' = StepAfterStillProcessing
    /\ message' = StillProcessingMessage(handler)
    /\ handler' = "none"
    /\ pc' = "idle"
    /\ UNCHANGED <<file, jobId, error, id, delayMs, jobsCreated>>

\* A loop that raises the delay before it sleeps.
PollRunningRaisingFirst ==
    /\ InSession
    /\ \E s \in JobStatusResponses(id), d \in Latencies :
        /\ StillProcessing(s)
        /\ ~OverBudget(elapsedMs + d)
        /\ elapsedMs' = elapsedMs + d
        /\ status' = s
        /\ jobStatus' = StoreSnapshot(jobStatus, s)
        /\ log' = log \o <<Observed("RUNNING", s), Sleep(NextDelay(delayMs))>>
        /\ message' = "Procesando... (" \o formatSeconds(RoundSeconds(elapsedMs + d))
                        \o "). Actualizando en " \o ToString(RoundSeconds(delayMs)) \o "s..."
    /\ delayMs' = NextDelay(delayMs)
    /\ pc' = "sleep"
    /\ UNCHANGED <<file, step, jobId, error, handler, id, result, jobsCreated>>

\* getJobStatus answered a non-terminal status within the budget: the
\* progress text, and await sleep(delayMs).
PollRunning ==
    /\ InSession
    /\ \E s \in JobStatusResponses(id), d \in Latencies :
        /\ StillProcessing(s)
        /\ ~OverBudget(elapsedMs + d)
        /\ elapsedMs' = elapsedMs + d
        /\ status' = s
        /\ jobStatus' = StoreSnapshot(jobStatus, s)
        /\ log' = log \o <<Observed("RUNNING", s), Sleep(delayMs)>>
        /\ message' = "Procesando... (" \o formatSeconds(RoundSeconds(elapsedMs + d))
                        \o "). Actualizando en " \o ToString(RoundSeconds(delayMs)) \o "s..."
    /\ pc' = "sleep"
    /\ UNCHANGED <<file, step, jobId, error, handler, id, delayMs, result,
                   jobsCreated>>

\* getJobStatus threw (non-2xx, or the request failed): the caller's catch.
PollThrows ==
    /\ InSession
    /\ \E res \in Failures, d \in Latencies :
        /\ elapsedMs' = elapsedMs + d
        /\ Catch(getJobStatusError(res))
    /\ result' = "thrown"
    /\ log' = log \o <<Thrown>>
    /\ UNCHANGED <<file, message, jobId, jobStatus, id, delayMs, status,
                   jobsCreated>>

\* The timer of sleep(delayMs) fired: the delay grows, and the loop issues the
\* next getJobStatus.
SleepFires ==
    /\ handler \in {"handleSubmit", "handleContinueWaiting"}
    /\ pc = "sleep"
    /\ elapsedMs' = elapsedMs + delayMs
    /\ delayMs' = NextDelay(delayMs)
    /\ log' = log \o <<Req("getJobStatus", id)>>
    /\ pc' = "getJobStatus"
    /\ UNCHANGED <<file, step, message, jobId, jobStatus, error, handler, id,
                   status, result, jobsCreated>>

\* ----------------------------------------------------------- handleDownload

\* downloadJob returned the blob (handed to the browser as ink-<id>.pdf);
\* the entry point sets "done" and returns.
DownloadJobReturns ==
    /\ handler # "none"
    /\ pc = "downloadJob"
    /\ \E res \in HttpResponses : ResOk(res)
    /\ step' = "done"
    /\ message' = DoneMessage(handler)
    /\ handler' = "none"
    /\ pc' = "idle"
    /\ UNCHANGED <<file, jobId, jobStatus, error, id, delayMs, elapsedMs,
                   status, result, log, jobsCreated>>

DownloadJobThrows ==
    /\ handler # "none"
    /\ pc = "downloadJob"
    /\ \E res \in Failures : Catch(downloadJobError(res))
    /\ log' = log \o <<Thrown>>
    /\ UNCHANGED <<file, message, jobId, jobStatus, id, delayMs, elapsedMs,
                   status, result, jobsCreated>>

\* ------------------------------------------- handleRefresh (refreshOnce)

\* Click on "Actualizar estado", up to await getJobStatus(jobId).
HandleRefresh ==
    /\ ~isBusy
    /\ ResumeButtonsShown
    /\ jobId # Null
    /\ error' = Null
    /\ step' = "waiting"
    /\ message' = "Actualizando estado..."
    /\ handler' = "handleRefresh"
    /\ id' = jobId
    /\ log' = <<Entry("handleRefresh"), Req("getJobStatus", jobId)>>
    /\ pc' = "refreshStatus"
    /\ UNCHANGED <<file, jobId, jobStatus, delayMs, elapsedMs, status, result,
                   jobsCreated>>

InRefresh == handler = "handleRefresh" /\ pc = "refreshStatus"

RefreshCompleted ==
    /\ InRefresh
    /\ \E s \in JobStatusResponses(id) :
        /\ IsCompleted(s)
        /\ status' = s
        /\ jobStatus' = StoreSnapshot(jobStatus, s)
        /\ log' = log \o <<Observed("COMPLETED", s), Req("downloadJob", id)>>
    /\ message' = "Job completado. Descargando..."
    /\ step' = "downloading"
    /\ pc' = "downloadJob"
    /\ UNCHANGED <<file, jobId, error, handler, id, delayMs, elapsedMs,
                   result, jobsCreated>>

RefreshFailed ==
    /\ InRefresh
    /\ \E s \in JobStatusResponses(id) :
        /\ IsFailed(s)
        /\ status' = s
        /\ jobStatus' = StoreSnapshot(jobStatus, s)
        /\ log' = log \o <<Observed("FAILED", s)>>
        /\ error' = RefreshFailure(s)
    /\ step' = "error"
    /\ handler' = "none"
    /\ pc' = "idle"
    /\ UNCHANGED <<file, message, jobId, id, delayMs, elapsedMs, result,
                   jobsCreated>>

\* Neither completed nor failed: only the text changes, and the entry point
\* returns.
RefreshStillProcessing ==
    /\ InRefresh
    /\ \E s \in JobStatusResponses(id) :
        /\ StillProcessing(s)
        /\ status' = s
        /\ jobStatus' = StoreSnapshot(jobStatus, s)
        /\ log' = log \o <<Observed("RUNNING", s)>>
    /\ message' = "Sigue procesando. Vuelve a actualizar en unos segundos."
    /\ handler' = "none"
    /\ pc' = "idle"
    /\ UNCHANGED <<file, step, jobId, error, id, delayMs, elapsedMs, result,
                   jobsCreated>>

RefreshThrows ==
    /\ InRefresh
    /\ \E res \in Failures : Catch(getJobStatusError(res))
    /\ log' = log \o <<Thrown>>
    /\ UNCHANGED <<file, message, jobId, jobStatus, id, delayMs, elapsedMs,
                   status, result, jobsCreated>>

\* ------------------------------- handleContinueWaiting (continueWaiting)

\* A continueWaiting that triggers the job again before it polls.
HandleContinueWaitingRetriggers ==
    /\ ~isBusy
    /\ ResumeButtonsShown
    /\ jobId # Null
    /\ error' = Null
    /\ step' = "waiting"
    /\ message' = "Esperando a que termine..."
    /\ handler' = "handleContinueWaiting"
    /\ id' = jobId
    /\ PollStart(jobId, <<Entry("handleContinueWaiting"), Req("processJob", jobId)>>)
    /\ UNCHANGED <<file, jobId, jobStatus, status, jobsCreated>>

\* A continueWaiting that enters pollUntilFinished without setStep("waiting").
HandleContinueWaitingKeepingStep ==
    /\ ~isBusy
    /\ ResumeButtonsShown
    /\ jobId # Null
    /\ error' = Null
    /\ step' = step
    /\ message' = "Esperando a que termine..."
    /\ handler' = "handleContinueWaiting"
    /\ id' = jobId
    /\ PollStart(jobId, <<Entry("handleContinueWaiting")>>)
    /\ UNCHANGED <<file, jobId, jobStatus, status, jobsCreated>>

\* Click on "Seguir esperando": setStep("waiting") and into pollUntilFinished.
HandleContinueWaiting ==
    /\ ~isBusy
    /\ ResumeButtonsShown
    /\ jobId # Null
    /\ error' = Null
    /\ step' = "waiting"
    /\ message' = "Esperando a que termine..."
    /\ handler' = "handleContinueWaiting"
    /\ id' = jobId
    /\ PollStart(jobId, <<Entry("handleContinueWaiting")>>)
    /\ UNCHANGED <<file, jobId, jobStatus, status, jobsCreated>>

\* ------------------------------------------------------------ specification

Next ==
    \/ SelectFile
    \/ HandleSubmitNoFile
    \/ HandleSubmit
    \/ UploadFileReturns
    \/ UploadFileThrows
    \/ ProcessJobReturns
    \/ ProcessJobThrows
    \/ PollCompleted
    \/ PollFailed
    \/ PollTimedOut
    \/ PollRunning
    \/ PollThrows
    \/ SleepFires
    \/ DownloadJobReturns
    \/ DownloadJobThrows
    \/ HandleRefresh
    \/ RefreshCompleted
    \/ RefreshFailed
    \/ RefreshStillProcessing
    \/ RefreshThrows
    \/ HandleContinueWaiting

Spec == Init /\ [][Next]_vars

\* -------------------------------------------------------------- scheduling

\* A getJobStatus awaited by pollUntilFinished is answered (or fails).
GetJobStatusSettles ==
    PollCompleted \/ PollFailed \/ PollTimedOut \/ PollRunning \/ PollThrows

\* The program with every awaited getJobStatus of a Poll Session settling
\* and every timer of sleep firing.
SpecLive == Spec /\ WF_vars(GetJobStatusSettles) /\ WF_vars(SleepFires)

\* ------------------------------------- progressInfo over arbitrary snapshots

\* The stages the backend names, one it does not, and none.
Stages == {Null, "import", "ocr", "translate", "render", "export", "completed", "cleanup"}

\* A counter: absent, or any integer from -1 to MaxTotal + 1.
Counters == {Absent} \cup {Some(n) : n \in (0 - 1)..(MaxTotal + 1)}

ProgressInputs ==
    {[job_id |-> "job1", status |-> "processing", error_message |-> Null,
      progress_stage |-> stage, progress_current |-> c, progress_total |-> t] :
        stage \in Stages, c \in Counters, t \in Counters}

\* The page with a first snapshot stored: any total, no stage or counter yet.
InitProgress ==
    /\ file = Null
    /\ step = "idle"
    /\ message = ""
    /\ jobId = Null
    /\ jobStatus \in {s \in ProgressInputs :
                        s.progress_stage = Null /\ s.progress_current = Absent}
    /\ error = Null
    /\ handler = "none"
    /\ pc = "idle"
    /\ id = Null
    /\ delayMs = 0
    /\ elapsedMs = 0
    /\ status = NullStatus
    /\ result = "none"
    /\ log = <<>>
    /\ jobsCreated = 0

\* The snapshots that differ from js in the counter or in the stage.
SnapshotsAfter(js) ==
    {[js EXCEPT !.progress_current = c] : c \in Counters}
        \cup {[js EXCEPT !.progress_stage = stage] : stage \in Stages}

\* setJobStatus with a further snapshot: progressInfo is computed anew from
\* it.
SetJobStatus ==
    /\ \E s \in SnapshotsAfter(jobStatus) : jobStatus' = StoreSnapshot(jobStatus, s)
    /\ UNCHANGED <<file, step, message, jobId, error, handler, pc, id,
                   delayMs, elapsedMs, status, result, log, jobsCreated>>

NextProgress == SetJobStatus

SpecProgress == InitProgress /\ [][NextProgress]_vars

\* ------------------------------------------------------ reading the log

Last(sq) == sq[Len(sq)]

\* The entry point the log belongs to.
EntryPoint == IF log = <<>> THEN "none" ELSE log[1].op

IsRequest(e) == e.ev = "request"

IsRequestOf(op, e) == e.ev = "request" /\ e.op = op

Count(op) == Cardinality({i \in 1..Len(log) : IsRequestOf(op, log[i])})

\* The log's last entry is of kind ev.
LogEnds(ev) == log # <<>> /\ Last(log).ev = ev

\* The polling and fetching part of the log: the getJobStatus and downloadJob
\* requests, the responses taken and the throws caught.
IsPollEvent(e) ==
    \/ IsRequestOf("getJobStatus", e)
    \/ IsRequestOf("downloadJob", e)
    \/ e.ev \in {"RUNNING", "COMPLETED", "FAILED", "TIMED_OUT", "THROWN"}

PollTrace == SelectSeq(log, IsPollEvent)

IsSleep(e) == e.ev = "sleep"

\* The delays of the suspensions of the log's Poll Session, in order.
Delays == SelectSeq(log, IsSleep)

InPollEntry == EntryPoint \in {"handleSubmit", "handleContinueWaiting"}

\* ------------------------------------------------------------------ claims

\* C1: a Poll Session of handleSubmit or handleContinueWaiting that ends on
\* the budget (only non-terminal snapshots seen) leaves step = waiting,
\* error = null, the Job Identifier set to the polled job and no downloadJob
\* issued; the entry point has returned and the step is not error.
C1_TimeoutIsNotAnError ==
    LogEnds("TIMED_OUT") =>
        /\ InPollEntry
        /\ handler = "none"
        /\ result = "still_processing"
        /\ step = "waiting"
        /\ step # "error"
        /\ error = Null
        /\ jobId # Null
        /\ jobId = id
        /\ Count("downloadJob") = 0
        /\ \A i \in 1..Len(log) : log[i].seen \in {Null, "nonterminal"}

C1_Witness ==
    /\ LogEnds("TIMED_OUT")
    /\ EntryPoint = "handleSubmit"
    /\ elapsedMs > maxMs
    /\ step = "waiting"

\* C2: after a Poll Session has ended in TIMED_OUT and the entry point has
\* returned, "Seguir esperando" and "Actualizar estado" can be used.
C2_CanResumeAfterTimeout ==
    (LogEnds("TIMED_OUT") /\ handler = "none") =>
        /\ ~isBusy
        /\ ENABLED HandleContinueWaiting
        /\ ENABLED HandleRefresh

\* C3: in handleSubmit and handleContinueWaiting, when n non-terminal
\* snapshots are followed by a completed one, the Poll Session has issued
\* exactly n+1 getJobStatus calls, stayed RUNNING on the first n responses and
\* returned COMPLETED on the last, and exactly one downloadJob follows, right
\* after the last poll; no downloadJob is issued before a completed snapshot.
C3_PollsThenOneFetch ==
    InPollEntry =>
        LET T == PollTrace
            C == {i \in 1..Len(T) : T[i].seen = "completed"}
        IN  /\ C = {} => Count("downloadJob") = 0
            /\ C # {} =>
                LET c == CHOOSE i \in C : \A j \in C : i <= j
                    n == (c \div 2) - 1
                IN  /\ c % 2 = 0
                    /\ \A k \in 1..(n + 1) : T[2 * k - 1] = Req("getJobStatus", id)
                    /\ \A k \in 1..n : T[2 * k].ev = "RUNNING" /\ T[2 * k].seen = "nonterminal"
                    /\ T[c].ev = "COMPLETED"
                    /\ Count("getJobStatus") = n + 1
                    /\ Len(T) >= c + 1
                    /\ T[c + 1] = Req("downloadJob", id)
                    /\ Count("downloadJob") = 1
                    /\ Len(T) <= c + 2
                    /\ Len(T) = c + 2 => T[c + 2].ev = "THROWN"

\* [processing, processing, completed]: three polls, one fetch, done.
C3_Witness ==
    /\ EntryPoint = "handleSubmit"
    /\ Len(PollTrace) = 7
    /\ PollTrace[2].seen = "nonterminal"
    /\ PollTrace[4].seen = "nonterminal"
    /\ PollTrace[6].seen = "completed"
    /\ PollTrace[7] = Req("downloadJob", id)
    /\ Count("getJobStatus") = 3
    /\ step = "done"

\* C4: whenever downloadJob(id) has been issued by an entry point, the
\* response taken right before it, which is the latest getJobStatus response
\* and the stored snapshot, is one for id with status completed.
C4_FetchOnlyWhenCompleted ==
    \A i \in 1..Len(log) :
        IsRequestOf("downloadJob", log[i]) =>
            /\ i > 2
            /\ log[i - 1].seen = "completed"
            /\ log[i - 2] = Req("getJobStatus", log[i].id)
            /\ log[i].id = id
            /\ status.status = "completed"
            /\ status.job_id = id
            /\ jobStatus = status

C4_Witness ==
    /\ EntryPoint = "handleRefresh"
    /\ pc = "downloadJob"
    /\ jobStatus.status = "completed"

\* A failure in the log: a snapshot with status failed, or a throw caught.
IsFailure(e) == e.seen = "failed" \/ e.ev \in {"FAILED", "THROWN"}

\* C5: when handleSubmit, handleRefresh or handleContinueWaiting sees a failed
\* snapshot or a transport operation throws, the entry point stops there:
\* nothing is done after the failure (no request, no retry, no sleep), the
\* entry point has returned with step = error, and at that moment error is a
\* non-empty text.
C5_FailureStopsTheEntryPoint ==
    [][ /\ \A i \in 1..Len(log') :
            IsFailure(log'[i]) =>
                /\ i = Len(log')
                /\ handler' = "none"
                /\ pc' = "idle"
                /\ step' = "error"
                /\ step' \notin {"done", "waiting", "idle"}
        /\ (log' # log /\ log' # <<>> /\ IsFailure(Last(log'))) =>
                /\ error' # Null
                /\ error' # ""
      ]_vars

C5_Witness ==
    /\ LogEnds("THROWN")
    /\ Count("downloadJob") = 1
    /\ step = "error"
    /\ error = "Error descargando resultado: 500 Internal Server Error"

\* The text used when a failed snapshot has no message, by where it is seen.
GenericFailureText(h) ==
    IF h = "handleRefresh" THEN "Job fallido." ELSE "El procesamiento ha fallado."

\* C6: when a snapshot with status failed is taken (by the poll loop or by
\* handleRefresh), error becomes exactly the snapshot's error_message when
\* that is present, and otherwise (null or empty) the non-empty generic text
\* of the place that saw it.
C6_FailureMessage ==
    [][ (log' # log /\ log' # <<>> /\ Last(log').seen = "failed") =>
            /\ status'.status = "failed"
            /\ jobStatus' = status'
            /\ status'.error_message \notin {Null, ""} => error' = status'.error_message
            /\ status'.error_message \in {Null, ""} =>
                    /\ error' = GenericFailureText(EntryPoint')
                    /\ error' # ""
                    /\ error' # Null
      ]_vars

C6_Witness ==
    /\ LogEnds("FAILED")
    /\ EntryPoint = "handleContinueWaiting"
    /\ status.error_message = ""
    /\ error = "El procesamiento ha fallado."

\* C7: handleRefresh and handleContinueWaiting issue only getJobStatus and
\* downloadJob, and only for the stored Job Identifier: never uploadFile or
\* processJob.  One handleSubmit issues uploadFile at most once and processJob
\* at most once.
C7_NoResubmitNoRetrigger ==
    /\ EntryPoint \in {"handleRefresh", "handleContinueWaiting"} =>
        /\ jobId # Null
        /\ \A i \in 1..Len(log) :
            IsRequest(log[i]) =>
                /\ log[i].op \in {"getJobStatus", "downloadJob"}
                /\ log[i].id = jobId
        /\ Count("uploadFile") = 0
        /\ Count("processJob") = 0
    /\ EntryPoint = "handleSubmit" =>
        /\ Count("uploadFile") <= 1
        /\ Count("processJob") <= 1

C7_Witness ==
    /\ EntryPoint = "handleContinueWaiting"
    /\ Count("getJobStatus") = 2
    /\ Count("downloadJob") = 1
    /\ jobsCreated = 2
    /\ step = "done"

\* The backoff sequence as the claim lists it.
ExpectedDelay(k) ==
    IF k <= 10
    THEN <<2000, 2400, 2880, 3456, 4147, 4976, 5971, 7165, 8598, 10000>>[k]
    ELSE 10000

\* C8: the delays of the successive suspensions of one Poll Session are 2000,
\* 2400, 2880, ...: each is min(10000, round(1.2 * the one before)), none is
\* smaller than the one before, and none exceeds 10000.
C8_BackoffSequence ==
    LET D == Delays
    IN  \A k \in 1..Len(D) :
            /\ D[k].ms = ExpectedDelay(k)
            /\ D[k].ms <= 10000
            /\ k = 1 => D[k].ms = 2000
            /\ k > 1 =>
                /\ D[k].ms >= D[k - 1].ms
                /\ D[k].ms = Min(10000, (12 * D[k - 1].ms + 5) \div 10)

\* Twenty RUNNING iterations in a row.
C8_Witness ==
    /\ Len(Delays) = 20
    /\ Delays[3].ms = 2880
    /\ Delays[20].ms = 10000
    /\ pc = "sleep"

\* C9: every entry into pollUntilFinished, from handleSubmit or from
\* handleContinueWaiting, starts with elapsed time 0 and delay 2000 ms,
\* whatever values the locals of an earlier session had reached.
C9_FreshSession ==
    [][ (pc # "getJobStatus" /\ pc # "sleep" /\ pc' = "getJobStatus") =>
            /\ delayMs' = 2000
            /\ elapsedMs' = 0
            /\ Count("getJobStatus")' = 1
      ]_vars

\* A second session of the same job, at its first poll, after a session that
\* saw the job processing, slept (its delay grew past 2000) and then ended by
\* a throw.
C9_Witness ==
    /\ handler = "handleContinueWaiting"
    /\ pc = "getJobStatus"
    /\ Count("getJobStatus") = 1
    /\ result = "thrown"
    /\ jobStatus.status = "processing"
    /\ delayMs = 2000
    /\ elapsedMs = 0

\* C10: a Poll Session goes on to a suspension only within the budget; a
\* non-terminal response after it ends the session in TIMED_OUT, and then
\* nothing of that session is left: the entry point has returned, no request
\* is outstanding, no timer is pending, and nothing follows TIMED_OUT in the
\* log (no further getJobStatus) until an entry point is invoked again.
C10_TimedOutStopsPolling ==
    /\ pc = "sleep" => elapsedMs <= maxMs
    /\ \A i \in 1..Len(log) :
        log[i].ev = "TIMED_OUT" =>
            /\ i = Len(log)
            /\ elapsedMs > maxMs
            /\ handler = "none"
            /\ pc = "idle"
            /\ ~ENABLED SleepFires
            /\ ~ENABLED PollRunning

C10_Witness ==
    /\ LogEnds("TIMED_OUT")
    /\ EntryPoint = "handleContinueWaiting"
    /\ Count("getJobStatus") > 2
    /\ elapsedMs > maxMs

\* The requests of the log, in the order they were issued.
Requests == SelectSeq(log, IsRequest)

\* The place of a step in the order uploading, starting, waiting,
\* downloading, done.
StepRank(s) ==
    CASE s = "uploading" -> 1
      [] s = "starting" -> 2
      [] s = "waiting" -> 3
      [] s = "downloading" -> 4
      [] s = "done" -> 5
      [] OTHER -> 0

\* The step that goes with each await of handleSubmit.
StepAt(p) ==
    CASE p = "uploadFile" -> "uploading"
      [] p = "processJob" -> "starting"
      [] p \in {"getJobStatus", "sleep"} -> "waiting"
      [] p = "downloadJob" -> "downloading"

\* C11: handleSubmit issues its requests one after the other as uploadFile,
\* processJob, getJobStatus (one or more), downloadJob: processJob right after
\* uploadFile returned, the first getJobStatus right after processJob
\* returned, downloadJob right after a response with status completed.  Its
\* step starts at uploading and every change of it goes to the next of
\* uploading, starting, waiting, downloading, done (or to error); at each
\* await the step is the one of that phase.
C11_RunIsSequential ==
    /\ [][ /\ (handler = "none" /\ handler' = "handleSubmit") => step' = "uploading"
           /\ (handler = "handleSubmit" /\ step' # step) =>
                    \/ step' = "error"
                    \/ StepRank(step') = StepRank(step) + 1
       ]_vars
    /\ [](handler = "handleSubmit" => step = StepAt(pc))
    /\ [](EntryPoint = "handleSubmit" =>
            LET R == Requests
            IN  /\ \A k \in 1..Len(R) :
                    /\ k = 1 <=> R[k].op = "uploadFile"
                    /\ k = 2 <=> R[k].op = "processJob"
                    /\ R[k].op = "downloadJob" => k = Len(R) /\ k > 3
                    /\ k > 2 => R[k].op \in {"getJobStatus", "downloadJob"}
                /\ \A i \in 1..Len(log) :
                    /\ IsRequestOf("processJob", log[i]) =>
                            log[i - 1] = Req("uploadFile", Null)
                    /\ (IsRequestOf("getJobStatus", log[i]) /\ i = 4) =>
                            log[i - 1] = Req("processJob", log[i].id)
                    /\ IsRequestOf("getJobStatus", log[i]) =>
                            i >= 4 /\ (i > 4 => IsSleep(log[i - 1]))
                    /\ IsRequestOf("downloadJob", log[i]) =>
                            log[i - 1].ev = "COMPLETED" /\ log[i - 1].seen = "completed")

\* A run that went through all five steps: one poll saw the job processing,
\* the next saw it completed, and the download returned.
C11_Witness ==
    /\ EntryPoint = "handleSubmit"
    /\ handler = "none"
    /\ step = "done"
    /\ Len(Requests) = 5
    /\ Requests[5].op = "downloadJob"

\* A request is awaited at these positions of an entry point.
AwaitsRequest == pc \in {"uploadFile", "processJob", "getJobStatus", "refreshStatus", "downloadJob"}

\* The request awaited at position p.
RequestAt(p) ==
    CASE p = "uploadFile" -> Req("uploadFile", Null)
      [] p = "processJob" -> Req("processJob", id)
      [] p \in {"getJobStatus", "refreshStatus"} -> Req("getJobStatus", id)
      [] p = "downloadJob" -> Req("downloadJob", id)

\* C12: while an entry point is in progress isBusy holds, so the file input
\* and the three buttons are disabled and no entry point can be invoked: at
\* most one of handleSubmit, handleRefresh, handleContinueWaiting is in
\* progress, and with it at most one Poll Session.  The entry point in
\* progress is either awaiting the one request it issued last or suspended in
\* sleep, never both: while it sleeps the last getJobStatus has been answered
\* and no response can arrive, and while a request is awaited no timer is
\* pending.
C12_OneAtATime ==
    /\ handler = "none" <=> pc = "idle"
    /\ handler # "none" =>
        /\ isBusy
        /\ ~ENABLED SelectFile
        /\ ~ENABLED HandleSubmit
        /\ ~ENABLED HandleSubmitNoFile
        /\ ~ENABLED HandleRefresh
        /\ ~ENABLED HandleContinueWaiting
        /\ EntryPoint = handler
        /\ AwaitsRequest \/ pc = "sleep"
    /\ AwaitsRequest =>
        /\ Last(log) = RequestAt(pc)
        /\ ~ENABLED SleepFires
    /\ pc = "sleep" =>
        /\ IsSleep(Last(log))
        /\ log[Len(log) - 1].ev = "RUNNING"
        /\ log[Len(log) - 2] = Req("getJobStatus", id)
        /\ ~ENABLED PollRunning
        /\ ~ENABLED PollCompleted
        /\ ~ENABLED PollFailed
        /\ ~ENABLED PollTimedOut
        /\ ~ENABLED PollThrows

\* A Poll Session of handleContinueWaiting suspended in sleep, with a file
\* chosen and a job stored: every control would be usable if not for isBusy.
C12_Witness ==
    /\ handler = "handleContinueWaiting"
    /\ pc = "sleep"
    /\ file # Null
    /\ jobId # Null
    /\ isBusy

\* C13: handleRefresh issues exactly one getJobStatus and never sleeps; on a
\* completed response one downloadJob follows and a download that returns
\* leaves step = done; on a failed response it ends in error with the failure
\* text (shown until a file is chosen again); on any other response it issues nothing more and, once it has
\* returned, the step, the error and the Job Identifier are what they were
\* when it was invoked.
C13_RefreshOnceFrame ==
    EntryPoint = "handleRefresh" =>
        /\ Count("getJobStatus") = 1
        /\ log[2] = Req("getJobStatus", log[1].found.jobId)
        /\ Delays = <<>>
        /\ Count("downloadJob") = IF \E i \in 1..Len(log) : log[i].ev = "COMPLETED" THEN 1 ELSE 0
        /\ (handler = "none" /\ LogEnds("request") /\ Last(log).op = "downloadJob") => step = "done"
        /\ LogEnds("FAILED") =>
            /\ step = "error"
            /\ error # Null => error = RefreshFailure(status)
        /\ LogEnds("RUNNING") =>
            /\ handler = "none"
            /\ Len(Requests) = 1
            /\ jobStatus = status
            /\ step = log[1].found.step
            /\ (error = Null) <=> (log[1].found.error = Null)
            /\ jobId = log[1].found.jobId

\* pollUntilFinished has been entered and has neither returned nor thrown.
PollSessionActive ==
    /\ handler \in {"handleSubmit", "handleContinueWaiting"}
    /\ pc \in {"getJobStatus", "sleep"}

\* C14: while a Poll Session is active (from handleSubmit or from
\* handleContinueWaiting, awaiting getJobStatus or suspended in sleep) the
\* step is waiting; in each of idle, uploading, starting, downloading, done
\* and error no Poll Session is active.
C14_SessionOnlyInWaiting ==
    /\ step \in {"idle", "uploading", "starting", "waiting", "downloading", "done", "error"}
    /\ PollSessionActive => step = "waiting"
    /\ step \in {"idle", "uploading", "starting", "downloading", "done", "error"} =>
        /\ ~PollSessionActive
        /\ ~ENABLED SleepFires
        /\ ~ENABLED PollRunning

\* A session started by "Seguir esperando" from step = error, at its second
\* poll.
C14_Witness ==
    /\ PollSessionActive
    /\ handler = "handleContinueWaiting"
    /\ result = "thrown"
    /\ Count("getJobStatus") = 2
    /\ pc = "getJobStatus"
    /\ step = "waiting"

\* What was appended to the log by the step.
Appended == SubSeq(log', Len(log) + 1, Len(log'))

\* The transition rules of the polling phase for job j, stated without the
\* entry point that runs it: what the response awaited at pc makes of the
\* step, the error, the timing and the requests.
PollPhaseRule(j) ==
    \/ /\ pc = "getJobStatus"
       /\ \E s \in JobStatusResponses(j), d \in Latencies :
            /\ jobStatus' = s
            /\ elapsedMs' = elapsedMs + d
            /\ delayMs' = delayMs
            /\ CASE s.status = "completed" ->
                        /\ step' = "downloading"
                        /\ error' = error
                        /\ pc' = "downloadJob"
                        /\ Appended = <<Observed("COMPLETED", s), Req("downloadJob", j)>>
                 [] s.status = "failed" ->
                        /\ step' = "error"
                        /\ error' = IF s.error_message \in {Null, ""}
                                     THEN "El procesamiento ha fallado."
                                     ELSE s.error_message
                        /\ pc' = "idle"
                        /\ Appended = <<Observed("FAILED", s)>>
                 [] OTHER ->
                        IF elapsedMs + d > maxMs
                        THEN /\ step' = "waiting"
                             /\ error' = error
                             /\ pc' = "idle"
                             /\ Appended = <<Observed("TIMED_OUT", s)>>
                        ELSE /\ step' = step
                             /\ error' = error
                             /\ pc' = "sleep"
                             /\ Appended = <<Observed("RUNNING", s), Sleep(delayMs)>>
    \/ /\ pc = "getJobStatus"
       /\ \E res \in Failures :
            /\ step' = "error"
            /\ error' = getJobStatusError(res).message
            /\ pc' = "idle"
            /\ Appended = <<Thrown>>
    \/ /\ pc = "sleep"
       /\ step' = step
       /\ error' = error
       /\ elapsedMs' = elapsedMs + delayMs
       /\ delayMs' = NextDelay(delayMs)
       /\ pc' = "getJobStatus"
       /\ Appended = <<Req("getJobStatus", j)>>
    \/ /\ pc = "downloadJob"
       /\ step' = "done"
       /\ error' = error
       /\ pc' = "idle"
       /\ Appended = <<>>
    \/ /\ pc = "downloadJob"
       /\ \E res \in Failures :
            /\ step' = "error"
            /\ error' = downloadJobError(res).message
            /\ pc' = "idle"
            /\ Appended = <<Thrown>>

\* C15: handleContinueWaiting on job j and the part of handleSubmit after
\* processJob(j) returned follow the same rules.  Both enter the polling phase
\* in the same condition (step = waiting, error = null, stored identifier j,
\* elapsed time 0, delay 2000, getJobStatus(j) issued), and from then on each
\* of their steps is the one PollPhaseRule gives for the response, whichever
\* of the two is running; so for the same outcomes and timings they end in
\* the same step, with the same error and the same requests.
C15_ContinueWaitingPollsLikeRun ==
    [][ /\ (handler' \in {"handleSubmit", "handleContinueWaiting"}
                /\ pc \notin {"getJobStatus", "sleep"} /\ pc' = "getJobStatus") =>
                    /\ step' = "waiting"
                    /\ error' = Null
                    /\ jobId' = id'
                    /\ elapsedMs' = 0
                    /\ delayMs' = InitialDelayMs
                    /\ PollTrace' = <<Req("getJobStatus", id')>>
        /\ (handler \in {"handleSubmit", "handleContinueWaiting"}
                /\ pc \in {"getJobStatus", "sleep", "downloadJob"}) =>
                    /\ PollPhaseRule(id)
                    /\ jobId' = id
                    /\ id' = id
                    /\ handler' = IF pc' = "idle" THEN "none" ELSE handler
      ]_vars

\* handleContinueWaiting ended as a run can: the status request failed with
\* a 500 and the error is the transport's text, not the entry point's own.
C15_Witness ==
    /\ EntryPoint = "handleContinueWaiting"
    /\ handler = "none"
    /\ PollTrace = <<Req("getJobStatus", id), Observed("RUNNING", jobStatus), Req("getJobStatus", id), Thrown>>
    /\ step = "error"
    /\ error = "Error consultando job: 500 Internal Server Error"

\* A getJobStatus response was taken in the step.
ResponseTaken ==
    \E i \in (Len(log) + 1)..Len(log') :
        log'[i].ev \in {"RUNNING", "COMPLETED", "FAILED", "TIMED_OUT"}

\* C16: the stored snapshot is always the latest getJobStatus response taken
\* (by a Poll Session or by handleRefresh), whole: it is stored in the step
\* that takes the response, so before any further getJobStatus, and it is a
\* response for the polled job, whatever was stored before, also a snapshot
\* further on in stage and counters.  Only a response with status failed
\* makes taking it end in error.
C16_LatestObservedWins ==
    /\ [](jobStatus = status)
    /\ [][ ResponseTaken =>
                /\ jobStatus' = status'
                /\ status' \in JobStatusResponses(id)
                /\ Last(log') # Req("getJobStatus", id)
                /\ status'.status # "failed" =>
                        /\ step' # "error"
                        /\ error' = error
                        /\ ~IsFailure(Last(log'))
       ]_vars

\* handleRefresh found the snapshot (ocr, 1 of 1) stored and took the
\* response (import, 0 of 1): stage and counter went backwards.
C16_Witness ==
    /\ EntryPoint = "handleRefresh"
    /\ LogEnds("RUNNING")
    /\ log[1].found.progress_stage = "ocr"
    /\ log[1].found.progress_current = Some(1)
    /\ jobStatus = Snapshot(id, "processing", Null, ProgressOf("import", 0, 1))
    /\ step # "error"

\* C17 as stated: once jobId has a value no step changes it.
C17_JobIdImmutable ==
    [][jobId # Null => jobId' = jobId]_vars

\* The identifiers of the jobs created so far.
JobsCreatedSoFar == {JobIds[k] : k \in 1..jobsCreated}

\* C17, amended: jobId changes only when the uploadFile of a handleSubmit
\* returns, and then to the identifier of the job just created, which no
\* earlier job had; from there to the end of that handleSubmit, and in
\* handleRefresh, handleContinueWaiting and the file input, it stays as it
\* is, and it is the job every request of the entry point is for.
C17_JobIdChangesOnlyOnUpload ==
    /\ [][ jobId' # jobId =>
                /\ handler = "handleSubmit"
                /\ pc = "uploadFile"
                /\ pc' = "processJob"
                /\ jobId' = JobIds[jobsCreated']
                /\ jobId' \notin JobsCreatedSoFar
                /\ jobId' # Null
       ]_vars
    /\ [](\A i \in 1..Len(log) :
            (IsRequest(log[i]) /\ log[i].op # "uploadFile") => log[i].id = jobId)

\* A second run has replaced job1 by job2 and is polling it.
C17_Witness ==
    /\ jobId = "job2"
    /\ jobsCreated = 2
    /\ handler = "handleSubmit"
    /\ Last(log) = Req("getJobStatus", "job2")

\* C18: once jobId is non-null no step makes it null, and every step that
\* ends in error or in a timeout (a failed snapshot, a throw of processJob,
\* getJobStatus or downloadJob, the budget, handleSubmit with no file, a
\* later handleSubmit whose uploadFile throws) leaves jobId as it was.
C18_JobIdentityKept ==
    [][ /\ jobId # Null => jobId' # Null
        /\ (step' = "error" \/ LogEnds("TIMED_OUT")') => jobId' = jobId
      ]_vars

\* A later run failed in its upload and job1 is still stored.
C18_Witness ==
    /\ log = <<Entry("handleSubmit"), Req("uploadFile", Null), Thrown>>
    /\ step = "error"
    /\ jobsCreated = 1
    /\ jobId = "job1"

\* n / d rounded to the nearest integer, halves upwards (d > 0).
RoundHalfUp(n, d) == (2 * n + d) \div (2 * d)

\* clamp(x, lo, hi)
Clamp(x, lo, hi) == Max(lo, Min(x, hi))

\* C19: for a snapshot with current >= 0 and total > 0 progressInfo gives a
\* percent from 0 to 100: 100 for the stages export and completed whatever
\* the counters, and round(100 * clamp(current, 0, total) / total) for every
\* other stage, unknown and absent ones included.
C19_PercentOfProgress ==
    LET js == jobStatus
    IN  (js.progress_current # Absent /\ js.progress_current[1] >= 0 /\ ~NoTotal(js)) =>
            LET c == js.progress_current[1]
                t == js.progress_total[1]
            IN  /\ progressInfo(js) # Absent
                /\ progressInfo(js)[1].percent \in 0..100
                /\ js.progress_stage \in {"export", "completed"} =>
                        progressInfo(js)[1].percent = 100
                /\ js.progress_stage \notin {"export", "completed"} =>
                        progressInfo(js)[1].percent = RoundHalfUp(100 * Clamp(c, 0, t), t)

\* The stages with a label of their own.
KnownStages == {"import", "ocr", "translate", "render", "export", "completed"}

\* C20: progressInfo is null exactly when progress_total is absent or <= 0,
\* whatever the stage; otherwise it is a view with a text and a percent from
\* 0 to 100: a stage outside the six known ones, an absent one included,
\* gets the text "Procesando current / total", and an absent
\* progress_current gives the view that progress_current = 0 gives.
C20_ProgressInfoIsTotal ==
    LET js == jobStatus
        info == progressInfo(js)
    IN  /\ info = Absent <=> (js.progress_total = Absent \/ js.progress_total[1] <= 0)
        /\ info # Absent =>
            /\ info[1].text # ""
            /\ info[1].percent \in 0..100
            /\ js.progress_stage \notin KnownStages =>
                    info[1].text =
                        "Procesando "
                            \o ToString(IF js.progress_current = Absent
                                         THEN 0
                                         ELSE Min(js.progress_current[1], js.progress_total[1]))
                            \o " / " \o ToString(js.progress_total[1])
            /\ js.progress_current = Absent =>
                    info = progressInfo([js EXCEPT !.progress_current = Some(0)])

\* A stage the page does not know and no current, total 3: the generic text
\* with current 0.
C20_Witness ==
    /\ jobStatus.progress_stage = "cleanup"
    /\ jobStatus.progress_current = Absent
    /\ jobStatus.progress_total = Some(3)
    /\ progressInfo(jobStatus) = Some([text |-> "Procesando 0 / 3", percent |-> 0])

\* The text each transport operation puts before the status code.
ErrorPrefix(p) ==
    CASE p = "uploadFile" -> "Error creando job"
      [] p = "processJob" -> "Error procesando job"
      [] p \in {"getJobStatus", "refreshStatus"} -> "Error consultando job"
      [] p = "downloadJob" -> "Error descargando resultado"

\* The responses outside 200..299.
Non2xx == {res \in HttpResponses : res.status < 200 \/ res.status > 299}

\* The status code and the body text of `res`, as the operation awaited at p
\* words them.
StatusAndBody(p, res) == ErrorPrefix(p) \o ": " \o ToString(res.status) \o " " \o res.text

\* The throw of the operation awaited at the current position.
ThrowsHere ==
    CASE pc = "uploadFile" -> UploadFileThrows
      [] pc = "processJob" -> ProcessJobThrows
      [] pc = "getJobStatus" -> PollThrows
      [] pc = "refreshStatus" -> RefreshThrows
      [] pc = "downloadJob" -> DownloadJobThrows

\* C21: uploadFile, processJob, getJobStatus and downloadJob return only on a
\* response with status 200..299; on every other response they throw, and
\* the text of what they throw names the status code and the body text of
\* that response; the entry point's catch stores exactly that text in error.
C21_Non2xxIsSurfaced ==
    /\ [](AwaitsRequest =>
            /\ \A res \in HttpResponses : ResOk(res) <=> res \notin Non2xx
            /\ \A res \in Non2xx :
                    /\ res \in Failures
                    /\ ENABLED (ThrowsHere /\ error' = StatusAndBody(pc, res)))
    /\ [][ (log' # log /\ LogEnds("THROWN")') =>
                /\ AwaitsRequest
                /\ step' = "error"
                /\ \/ error' = NetworkFailure.text
                   \/ \E res \in Non2xx : error' = StatusAndBody(pc, res)
       ]_vars

\* processJob answered 404 with an empty body.
C21_Witness ==
    /\ EntryPoint = "handleSubmit"
    /\ LogEnds("THROWN")
    /\ Count("processJob") = 1
    /\ step = "error"
    /\ error = "Error procesando job: 404 "

\* What the operation awaited at p throws on `res`.
ThrownAt(p, res) ==
    CASE p = "uploadFile" -> uploadFileError(res)
      [] p = "processJob" -> processJobError(res)
      [] p \in {"getJobStatus", "refreshStatus"} -> getJobStatusError(res)
      [] p = "downloadJob" -> downloadJobError(res)

\* C22: at every await of a transport operation, what it throws when the
\* request fails on the network and what it throws on a non-2xx response are
\* of different kinds (the TypeError fetch rejects with, against the Error
\* the operation constructs) and have different texts; both can happen, and
\* the error the catch stores differs between the two.
C22_NetworkAndServerFailuresDiffer ==
    AwaitsRequest =>
        /\ ENABLED (ThrowsHere /\ error' = ThrownAt(pc, NetworkFailure).message)
        /\ \A res \in Non2xx :
            /\ ThrownAt(pc, res).name # ThrownAt(pc, NetworkFailure).name
            /\ ThrownAt(pc, res).message # ThrownAt(pc, NetworkFailure).message
            /\ ENABLED (ThrowsHere /\ error' = ThrownAt(pc, res).message)

\* The status request of a resumed session failed on the network.
C22_Witness ==
    /\ EntryPoint = "handleContinueWaiting"
    /\ LogEnds("THROWN")
    /\ Count("downloadJob") = 0
    /\ step = "error"
    /\ error = "Failed to fetch"

\* C23: in a Poll Session the budget is looked at only after a response and
\* only when the response is neither completed nor failed.  A session issues
\* its first getJobStatus whatever the time, and after a suspension the next
\* one even when the suspension has used the budget up; a completed response
\* gives COMPLETED and a failed one FAILED also when the elapsed time exceeds
\* the budget; TIMED_OUT is given exactly on a non-terminal response with the
\* elapsed time strictly greater than the budget, and a non-terminal response
\* with the elapsed time equal to the budget keeps the session RUNNING.
C23_TerminalBeforeBudget ==
    /\ [](InPollEntry /\ (PollSessionActive \/ LogEnds("TIMED_OUT")) => Count("getJobStatus") >= 1)
    /\ [][ /\ (PollSessionActive /\ pc = "sleep") => Last(log') = Req("getJobStatus", id)
           /\ (ResponseTaken /\ PollSessionActive) =>
                /\ status'.status = "completed" => Appended[1].ev = "COMPLETED"
                /\ status'.status = "failed" => Appended[1].ev = "FAILED"
                /\ Appended[1].ev = "TIMED_OUT" <=>
                        (status'.status \notin {"completed", "failed"} /\ elapsedMs' > maxMs)
                /\ (status'.status \notin {"completed", "failed"} /\ elapsedMs' <= maxMs) =>
                        /\ Appended[1].ev = "RUNNING"
                        /\ pc' = "sleep"
       ]_vars

\* Two responses of 299000 ms around a suspension of 2000 ms: the second
\* non-terminal response is taken at exactly 600000 ms and the session goes
\* on to its next suspension.
C23_Witness ==
    /\ PollSessionActive
    /\ pc = "sleep"
    /\ elapsedMs = maxMs
    /\ Count("getJobStatus") = 2
    /\ log[Len(log) - 1].ev = "RUNNING"

\* C24: in a Poll Session the first getJobStatus is issued with no
\* suspension before it, and every later one comes right after exactly one
\* suspension, which follows the RUNNING response to the getJobStatus before.
\* The k-th suspension lasts the k-th value of the backoff sequence, which is
\* the delay in force while it is pending; the delay moves on to the next
\* value only when the suspension is over, so after k suspensions the delay
\* is the (k+1)-th value.
C24_OneSuspensionBetweenPolls ==
    InPollEntry =>
        LET first == IF EntryPoint = "handleSubmit" THEN 4 ELSE 2
            D == Delays
            polls == Count("getJobStatus")
        IN  /\ \A j \in 1..Len(log) :
                /\ IsRequestOf("getJobStatus", log[j]) => j >= first
                /\ (IsSleep(log[j]) \/ log[j].ev = "RUNNING") => j > first
                /\ (IsRequestOf("getJobStatus", log[j]) /\ j > first) =>
                    /\ IsSleep(log[j - 1])
                    /\ log[j - 2].ev = "RUNNING"
                    /\ log[j - 3] = log[j]
            /\ polls >= 1 => IsRequestOf("getJobStatus", log[first])
            /\ polls \in {Len(D), Len(D) + 1}
            /\ \A k \in 1..Len(D) : D[k].ms = ExpectedDelay(k)
            /\ PollSessionActive =>
                /\ pc = "sleep" =>
                    /\ polls = Len(D)
                    /\ delayMs = ExpectedDelay(Len(D))
                /\ pc = "getJobStatus" =>
                    /\ polls = Len(D) + 1
                    /\ delayMs = ExpectedDelay(Len(D) + 1)

\* The third getJobStatus of a session is awaited, after suspensions of 2000
\* and 2400 ms; the delay stands at 2880.
C24_Witness ==
    /\ PollSessionActive
    /\ pc = "getJobStatus"
    /\ Count("getJobStatus") = 3
    /\ Len(Delays) = 2
    /\ Delays[2].ms = 2400
    /\ delayMs = 2880

\* C25: a Poll Session issues at most 66 getJobStatus calls; when every
\* awaited getJobStatus settles and every timer fires, a session that is
\* active comes to an end; and a session that has ended after non-terminal
\* responses only, with no throw, has ended in TIMED_OUT.
C25_SessionTerminates ==
    /\ [](Count("getJobStatus") <= 66)
    /\ []((InPollEntry /\ ~PollSessionActive /\ Count("getJobStatus") >= 1
                /\ \A i \in 1..Len(log) : log[i].seen \in {Null, "nonterminal"} /\ log[i].ev # "THROWN")
            => LogEnds("TIMED_OUT"))
    /\ (PollSessionActive ~> ~PollSessionActive)

\* The 66th getJobStatus of a session, issued after 65 suspensions, was
\* answered with a non-terminal status at 601593 ms.
C25_Witness ==
    /\ LogEnds("TIMED_OUT")
    /\ Count("getJobStatus") = 66
    /\ Len(Delays) = 65
    /\ elapsedMs = 601593

\* C26: whenever no entry point is in progress (nothing awaited, no timer
\* pending) and a Job Identifier is stored, isBusy is false and at least one
\* of handleSubmit, handleRefresh, handleContinueWaiting can be invoked.
C26_NeverLeftBusy ==
    (handler = "none" /\ pc = "idle" /\ jobId # Null) =>
        /\ ~isBusy
        /\ \/ ENABLED HandleSubmit
           \/ ENABLED HandleSubmitNoFile
           \/ ENABLED HandleRefresh
           \/ ENABLED HandleContinueWaiting

\* C27: the stored snapshot describes the stored job: whenever jobStatus and
\* jobId are both non-null, jobStatus.job_id = jobId, also across a second
\* handleSubmit that creates a new job after an earlier job was polled.
C27_SnapshotDescribesStoredJob ==
    (jobStatus # NullStatus /\ jobId # Null) => jobStatus.job_id = jobId

\* C28: handleSubmit invoked with no file selected issues no request, ends
\* in the same turn with step = "error" and a non-null error, and leaves
\* jobId and the stored snapshot as they were; with no file selected this is
\* the only way handleSubmit can run.
C28_NoFileRunEndsAtOnce ==
    /\ [](file = Null =>
            /\ ~ENABLED HandleSubmit
            /\ ~isBusy => ENABLED (/\ HandleSubmitNoFile
                                   /\ Requests' = <<>>
                                   /\ handler' = "none" /\ pc' = "idle"
                                   /\ step' = "error" /\ error' # Null
                                   /\ jobId' = jobId
                                   /\ jobStatus' = jobStatus))
    /\ [][(file = Null /\ log' # log /\ EntryPoint' = "handleSubmit") =>
            /\ log' = <<Entry("handleSubmit")>>
            /\ handler' = "none" /\ pc' = "idle"
            /\ step' = "error" /\ error' # Null
            /\ jobId' = jobId
            /\ jobStatus' = jobStatus]_vars

\* A no-file click made while an earlier job and its snapshot are stored.
C28_Witness ==
    /\ file = Null
    /\ log = <<Entry("handleSubmit")>>
    /\ step = "error"
    /\ error = "Selecciona un archivo PDF primero."
    /\ jobId = "job1"
    /\ jobStatus.job_id = "job1"

====
